---- MODULE Spec2Model ----
(***************************************************************************)
(* Model of kmer_count_pairs.cc: the command line handling of main, the    *)
(* header comparison of read_headers and the two-way sorted merge, the     *)
(* coverage histogram and the table emission of output_counts.             *)
(*                                                                         *)
(* Keys are the k-mers in the order of the input files; they are numbered  *)
(* 1, 2, 3, ... in that order (AAA = 1, AAC = 2, AAG = 3, AAT = 4).        *)
(* argv is kept in the order getopt_long leaves it in: program name,       *)
(* options, positional arguments.  C arrays are 0-based: Argv(i) is        *)
(* argv[i].                                                                *)
(***************************************************************************)
EXTENDS Integers, Sequences, FiniteSets

\* ---------------------------------------------------------------- bounds
MaxKey   == 2      \* keys of the generated streams are 1..MaxKey
MaxLen   == 2      \* entries per generated stream
MaxCount == 1      \* stored counts of the generated streams are 0..MaxCount

\* ------------------------------------------------------ program constants
NumFiles == 2      \* cpp_array<file_info> files(2); read_headers(2, ...)
NumArgs  == 3      \* (argc - optind) != 3

VARIABLES
  pc,             \* position in main / output_counts
  argv,           \* the command line
  optind,         \* getopt's index of the next argv element
  saveMers,       \* bool saveMers
  exitCode,       \* -1 while running, 0 after return 0, 1 after err::die
  dieMsg,         \* which err::die ended the run ("" if none)
  files,          \* cpp_array<file_info>: path, stream state and header
  cinfo,          \* common_info returned by read_headers
  outfile,        \* char outfile[1024]   (<<prefix, suffix>>)
  tablefile,      \* char tablefile[1024] (<<prefix, suffix>>)
  buildOrder,     \* where this build's unordered_map links a new node
  data,           \* content of each input file: the entries its reader yields
  cur,            \* per reader: index of the current entry (0: before first)
  primeI,         \* loop variable i of the priming loop
  storage,        \* heap.storage_: the heap_item objects
  elts,           \* heap.elts_: pointers (slot numbers) in heap order
  h,              \* heap.h_: number of items in the heap
  head,           \* heap_item head (a pointer: the slot number, -1 unset)
  key,            \* mer_dna key (0: default constructed)
  counts,         \* uint64_t counts[num_files]
  coverage_count, \* the nested unordered_map, in node order
  mer_hash,       \* the calls mer_hash_.add(key, count) received, in order
  groups,         \* history: the (key, counts) of each finished group
  countsFrom,     \* history: key of the entry each counts slot was taken from
  pushLog,        \* history: the calls of heap.push, in order
  pops,           \* history: the number of calls of heap.pop
  headReadEmpty,  \* history: head->key_ or head->val_ was read on an empty heap
  tableOpen,      \* outfile_.is_open() after outfile_.open
  table,          \* the rows of the table file, once the run has opened it
  wi, wj,         \* position of the two range-for loops of the emission
  dumped          \* dumper->dump(mer_hash.ary()) was called

vars == <<pc, argv, optind, saveMers, exitCode, dieMsg, files, cinfo, outfile,
          tablefile, buildOrder, data, cur, primeI, storage, elts, h, head,
          key, counts, coverage_count, mer_hash, groups, countsFrom, pushLog,
          pops, headReadEmpty, tableOpen, table, wi, wj, dumped>>

mainVars  == <<argv, optind, saveMers, files, cinfo, outfile, tablefile>>
mergeVars == <<data, cur, primeI, storage, elts, h, head, key, counts,
               coverage_count, mer_hash, groups, countsFrom, pushLog, pops,
               headReadEmpty>>
emitVars  == <<tableOpen, table, wi, wj, dumped>>

\* ------------------------------------------------------------ input sets
FileIds == 0 .. (NumFiles - 1)

Entry == [key : 1 .. MaxKey, val : 0 .. MaxCount]

\* a reader yields its entries in strictly ascending key order
Ascending(s) == \A i \in 1 .. (Len(s) - 1) : s[i].key < s[i + 1].key

Streams ==
  { s \in UNION { [1 .. n -> Entry] : n \in 0 .. MaxLen } : Ascending(s) }

\* stream A: [(AAA,3), (AAG,5)]; stream B: [(AAA,3), (AAG,2), (AAT,1)]
ScenarioA == << [key |-> 1, val |-> 3], [key |-> 3, val |-> 5] >>
ScenarioB == << [key |-> 1, val |-> 3], [key |-> 3, val |-> 2],
                [key |-> 4, val |-> 1] >>
Scenario(i) == IF i = 0 THEN ScenarioA ELSE ScenarioB

\* the option part and the positional part of the command lines tried
OptLists == { <<>>, <<"-m">>, <<"--savemers">>, <<"-x">> }
PosLists == { <<"asm.jf", "reads.jf">>,
              <<"asm.jf", "reads.jf", "out">>,
              <<"asm.jf", "reads.jf", "out", "extra">> }

Formats == { "binary/sorted", "text/sorted", "bloomcounter" }
\* header of the first file, and the headers a second file may carry
Header0 == [format : Formats, key_len : {4}, max_reprobe_offset : {8},
            size : {16}, matrix : {"M"}]
Header1 == [format : Formats, key_len : {4, 6}, max_reprobe_offset : {8, 9},
            size : {16, 32}, matrix : {"M", "N"}]
NoHeader == [format |-> "", key_len |-> 0, max_reprobe_offset |-> 0,
             size |-> 0, matrix |-> ""]
NoFile == [path |-> "", good |-> FALSE, header |-> NoHeader]

\* node placement of std::unordered_map: the iteration order is unspecified
\* and fixed by the standard library of the build
BuildOrders == { "front", "back" }

Argv(i) == argv[i + 1]
argc    == Len(argv)

Init ==
  /\ pc = "getopt"
  /\ \E o \in OptLists, p \in PosLists : argv = <<"prog">> \o o \o p
  /\ optind = 1
  /\ saveMers = FALSE
  /\ exitCode = -1
  /\ dieMsg = ""
  /\ files = [i \in FileIds |-> NoFile]
  /\ cinfo = NoHeader
  /\ outfile = <<>>
  /\ tablefile = <<>>
  /\ buildOrder \in BuildOrders
  /\ data = [i \in FileIds |-> <<>>]
  /\ cur = [i \in FileIds |-> 0]
  /\ primeI = 0
  /\ storage = [s \in FileIds |-> [key_ |-> 0, val_ |-> 0, it_ |-> -1]]
  /\ elts = [s \in FileIds |-> s]
  /\ h = 0
  /\ head = -1
  /\ key = 0
  /\ counts = [i \in FileIds |-> 0]
  /\ coverage_count = <<>>
  /\ mer_hash = <<>>
  /\ groups = <<>>
  /\ countsFrom = [i \in FileIds |-> 0]
  /\ pushLog = <<>>
  /\ pops = 0
  /\ headReadEmpty = FALSE
  /\ tableOpen = FALSE
  /\ table = <<>>
  /\ wi = 0
  /\ wj = 0
  /\ dumped = FALSE

\* ------------------------------------------------------------------ main
\* err::die: report and exit with a non-zero status
Die(msg) ==
  /\ pc' = "died"
  /\ exitCode' = 1
  /\ dieMsg' = msg

IsOption(a) == a \in { "-m", "--savemers", "-x" }

\* what getopt_long(argc, argv, "m", long_options, ...) returns for an
\* option: 'm' for -m, the val field (0) of the long option, '?' otherwise
GetoptReturn(a) ==
  CASE a = "-m"         -> "m"
    [] a = "--savemers" -> "0"
    [] OTHER            -> "?"

\* one turn of the while (1) loop of the option parsing
GetOpt ==
  /\ pc = "getopt"
  /\ IF optind < argc /\ IsOption(Argv(optind))
       THEN /\ optind' = optind + 1
            /\ saveMers' = IF GetoptReturn(Argv(optind)) = "m"
                             THEN TRUE ELSE saveMers
            /\ pc' = "getopt"
       ELSE /\ pc' = "check_args"
            /\ UNCHANGED <<optind, saveMers>>
  /\ UNCHANGED <<argv, exitCode, dieMsg, files, cinfo, outfile, tablefile,
                 buildOrder>>
  /\ UNCHANGED mergeVars
  /\ UNCHANGED emitVars

\* mutant: only too few arguments are rejected
ArgCountOk_atLeast == (argc - optind) >= NumArgs

ArgCountOk == (argc - optind) = NumArgs

\* the argument count check
CheckArgs ==
  /\ pc = "check_args"
  /\ IF ArgCountOk
       THEN /\ pc' = "read_headers"
            /\ UNCHANGED <<exitCode, dieMsg>>
       ELSE Die("usage")
  /\ UNCHANGED <<buildOrder>>
  /\ UNCHANGED mainVars
  /\ UNCHANGED mergeVars
  /\ UNCHANGED emitVars

\* mutant: the comparison of the hash matrices is left out
HeaderMismatch_noMatrix(res, nh) ==
  CASE res.format # nh.format                         -> "format"
    [] res.key_len # nh.key_len                       -> "key_len"
    [] res.max_reprobe_offset # nh.max_reprobe_offset -> "reprobe"
    [] res.size # nh.size                             -> "size"
    [] OTHER                                          -> ""

\* The comparison of the second header with the first, in the order of the
\* checks of read_headers: the message of the first failing check, "" if none
HeaderMismatch(res, nh) ==
  CASE res.format # nh.format                         -> "format"
    [] res.key_len # nh.key_len                       -> "key_len"
    [] res.max_reprobe_offset # nh.max_reprobe_offset -> "reprobe"
    [] res.size # nh.size                             -> "size"
    [] res.matrix # nh.matrix                         -> "matrix"
    [] OTHER                                          -> ""

OpenFile(path, good, hdr) ==
  [path |-> path, good |-> good, header |-> IF good THEN hdr ELSE NoHeader]

\* common_info cinfo = read_headers(2, argv + optind, files)
ReadHeaders ==
  /\ pc = "read_headers"
  /\ \E g0 \in BOOLEAN, h0 \in Header0, g1 \in BOOLEAN, h1 \in Header1 :
       LET f0 == OpenFile(Argv(optind), g0, h0)
           f1 == OpenFile(Argv(optind + 1), g1, h1)
       IN  IF ~f0.good
             THEN /\ files' = [files EXCEPT ![0] = f0]
                  /\ Die("open0")
                  /\ UNCHANGED cinfo
             ELSE /\ files' = [files EXCEPT ![0] = f0, ![1] = f1]
                  /\ IF ~f1.good
                       THEN Die("open1") /\ UNCHANGED cinfo
                       ELSE IF HeaderMismatch(f0.header, f1.header) # ""
                         THEN /\ Die(HeaderMismatch(f0.header, f1.header))
                              /\ UNCHANGED cinfo
                         ELSE /\ cinfo' = f0.header
                              /\ pc' = "setup"
                              /\ UNCHANGED <<exitCode, dieMsg>>
  /\ UNCHANGED <<argv, optind, saveMers, outfile, tablefile, buildOrder>>
  /\ UNCHANGED mergeVars
  /\ UNCHANGED emitVars

\* the file names: strcpy(outfile, argv[argc - 1]); strcat(outfile,
\* "_mers.jf"); strcpy(tablefile, argv[3]); strcat(tablefile, ".tsv")
Setup ==
  /\ pc = "setup"
  /\ outfile' = <<Argv(argc - 1), "_mers.jf">>
  /\ tablefile' = <<Argv(3), ".tsv">>
  /\ pc' = "dispatch"
  /\ UNCHANGED <<argv, optind, saveMers, exitCode, dieMsg, files, cinfo,
                 buildOrder>>
  /\ UNCHANGED mergeVars
  /\ UNCHANGED emitVars

SupportedFormat(f) == f = "binary/sorted" \/ f = "text/sorted"

\* the choice of output_counts<binary_reader> or output_counts<text_reader>
Dispatch ==
  /\ pc = "dispatch"
  /\ IF SupportedFormat(cinfo.format)
       THEN /\ pc' = "prime"
            /\ UNCHANGED <<exitCode, dieMsg>>
       ELSE Die("unsupported")
  /\ UNCHANGED <<buildOrder>>
  /\ UNCHANGED mainVars
  /\ UNCHANGED mergeVars
  /\ UNCHANGED emitVars

\* ------------------------------------------------------------ the heap
\* jellyfish::mer_heap::heap over NumFiles heap_item slots.  storage_ holds
\* the items, elts_ the pointers to them in heap order (elts_[0] is the
\* head), h_ the number of items in use.
HeapState == [storage |-> storage, elts |-> elts, h |-> h]

\* heap_item_comp: the item with the smaller key is nearer the head
Comp(a, b) == a.key_ > b.key_

Swap(el, i, j) == [el EXCEPT ![i] = el[j], ![j] = el[i]]

RECURSIVE SiftUp(_, _, _)
SiftUp(st, el, c) ==
  IF c = 0 THEN el
  ELSE LET p == (c - 1) \div 2
       IN  IF Comp(st[el[p]], st[el[c]])
             THEN SiftUp(st, Swap(el, p, c), p)
             ELSE el

RECURSIVE SiftDown(_, _, _, _)
SiftDown(st, el, n, p) ==
  LET l == 2 * p + 1
      r == 2 * p + 2
      big == IF r < n /\ Comp(st[el[l]], st[el[r]]) THEN r ELSE l
  IN  IF l >= n THEN el
      ELSE IF Comp(st[el[p]], st[el[big]])
             THEN SiftDown(st, Swap(el, p, big), n, big)
             ELSE el

\* heap.push(reader): elts_[h_]->initialize(reader); push_heap
HeapPush(hp, it, k, v) ==
  LET slot == hp.elts[hp.h]
      st   == [hp.storage EXCEPT ![slot] = [key_ |-> k, val_ |-> v, it_ |-> it]]
  IN  [storage |-> st, elts |-> SiftUp(st, hp.elts, hp.h), h |-> hp.h + 1]

\* heap.pop(): pop_heap moves the head item to elts_[h_ - 1], then --h_
HeapPop(hp) ==
  IF hp.h > 1
    THEN [hp EXCEPT !.elts = SiftDown(hp.storage,
                                      Swap(hp.elts, 0, hp.h - 1), hp.h - 1, 0),
                    !.h = hp.h - 1]
    ELSE [hp EXCEPT !.h = hp.h - 1]

\* heap.head(): elts_[0]
HeapHead(hp) == hp.elts[0]

\* heap.is_not_empty()
IsNotEmpty(hp) == hp.h > 0

\* ---------------------------------------------------------- the readers
\* reader.next(): TRUE and one entry further if the file holds another entry
HasNext(d, c) == c < Len(d)

\* reader.key() and reader.val(): the entry the reader stands on; a reader
\* that has read nothing holds the default key and count
ReaderKey(d, c) == IF c = 0 THEN 0 ELSE d[c].key
ReaderVal(d, c) == IF c = 0 THEN 0 ELSE d[c].val

\* one call of heap.push as the history keeps it: the reader pushed, the
\* reader of the item popped just before (-1 when priming), the result of
\* the reader's preceding next(), and the position and key of its entry
PushRecord(it, popped, ok, pos, k) ==
  [it |-> it, popped |-> popped, ok |-> ok, pos |-> pos, key |-> k]

\* mutant: the priming loop pushes readers[0] in every turn
PrimeReader_first(i) == 0

\* heap.push(readers[i]): the reader the priming loop pushes in turn i
PrimeReader(i) == i

\* mutant: the result of next() is ignored when priming
PrimePush_always(ok) == TRUE

\* if (readers[i].next()) heap.push(readers[i]): whether the reader is pushed
PrimePush(ok) == ok

\* --------------------------------------------------------- output_counts
\* one turn of the priming loop: readers.init(i, ...); if (readers[i].next())
\* heap.push(readers[i]).  The content of file i is whatever the file holds.
Prime ==
  /\ pc = "prime"
  /\ primeI < NumFiles
  /\ \E s \in Streams \cup {Scenario(primeI)} :
       LET ok  == HasNext(s, 0)
           pos == IF ok THEN 1 ELSE 0
           q   == PrimeReader(primeI)
           qd  == IF q = primeI THEN s ELSE data[q]
           qc  == IF q = primeI THEN pos ELSE cur[q]
           hp  == HeapPush(HeapState, q, ReaderKey(qd, qc), ReaderVal(qd, qc))
       IN  /\ data' = [data EXCEPT ![primeI] = s]
           /\ cur' = [cur EXCEPT ![primeI] = pos]
           /\ IF PrimePush(ok)
                THEN /\ storage' = hp.storage
                     /\ elts' = hp.elts
                     /\ h' = hp.h
                     /\ pushLog' = Append(pushLog,
                          PushRecord(q, -1, ok, qc, ReaderKey(qd, qc)))
                ELSE UNCHANGED <<storage, elts, h, pushLog>>
  /\ primeI' = primeI + 1
  /\ UNCHANGED <<pc, exitCode, dieMsg, buildOrder, head, key, counts,
                 coverage_count, mer_hash, groups, countsFrom, pops,
                 headReadEmpty>>
  /\ UNCHANGED mainVars
  /\ UNCHANGED emitVars

\* heap_item head = heap.head(), after the priming loop
Peek ==
  /\ pc = "prime"
  /\ primeI = NumFiles
  /\ head' = HeapHead(HeapState)
  /\ pc' = "outer"
  /\ UNCHANGED <<exitCode, dieMsg, buildOrder, data, cur, primeI, storage,
                 elts, h, key, counts, coverage_count, mer_hash, groups,
                 countsFrom, pushLog, pops, headReadEmpty>>
  /\ UNCHANGED mainVars
  /\ UNCHANGED emitVars

\* mutant: the memset is left out, the vector keeps the last group's counts
ZeroCounts_keep(c) == c

\* memset(counts, '\0', sizeof(uint64_t) * num_files)
ZeroCounts(c) == [i \in FileIds |-> 0]

\* mutant: the merge stops as soon as one stream is exhausted
KeepMerging_twoLeft(hp) == hp.h > 1

\* while (heap.is_not_empty()): the test of the outer loop
KeepMerging(hp) == IsNotEmpty(hp)

\* while (heap.is_not_empty()) { key = head->key_; memset(counts, ...)
OuterHead ==
  /\ pc = "outer"
  /\ IF KeepMerging(HeapState)
       THEN /\ key' = storage[head].key_
            /\ headReadEmpty' = (headReadEmpty \/ ~IsNotEmpty(HeapState))
            /\ counts' = ZeroCounts(counts)
            /\ countsFrom' = [i \in FileIds |-> 0]
            /\ pc' = "inner"
       ELSE /\ pc' = "open"
            /\ UNCHANGED <<key, counts, countsFrom, headReadEmpty>>
  /\ UNCHANGED <<exitCode, dieMsg, buildOrder, data, cur, primeI, storage,
                 elts, h, head, coverage_count, mer_hash, groups, pushLog,
                 pops>>
  /\ UNCHANGED mainVars
  /\ UNCHANGED emitVars

\* mutant: the pointer difference is taken the wrong way round
SlotOf_swapped(item) == (NumFiles - 1) - item.it_

\* head->it_ - base: the index of the reader the item came from
SlotOf(item) == item.it_

\* mutant: the key comparison is left out of the loop test
ContinueGroup_noKeyTest(headKey, k, nonEmpty) == nonEmpty

\* mutant: the key comparison is inverted
ContinueGroup_inverted(headKey, k, nonEmpty) == headKey # k /\ nonEmpty

\* head->key_ == key && heap.is_not_empty()
ContinueGroup(headKey, k, nonEmpty) == headKey = k /\ nonEmpty

\* mutant: the slot gets a presence flag instead of the stored count
Recorded_flag(item) == 1

\* counts[...] = head->val_: the value written into the slot
Recorded(item) == item.val_

\* mutant: the head is refreshed before the reader is advanced, so the
\* reader of the new minimum is advanced
AdvancedReader_newMin(hp, headPtr) == hp.storage[hp.elts[0]].it_

\* head->it_ after heap.pop(): head still points to the item popped
AdvancedReader(hp, headPtr) == hp.storage[headPtr].it_

\* mutant: the result of next() is ignored after a pop
RePush_always(ok) == TRUE

\* if (head->it_->next()) heap.push(*head->it_): whether the reader is pushed
RePush(ok) == ok

\* head->key_ == key && heap.is_not_empty(): the left operand of && is
\* evaluated whatever is_not_empty() returns
TestReadsHeadKey(nonEmpty) == TRUE

\* one turn of the do ... while loop: counts[head->it_ - base] = head->val_;
\* heap.pop(); if (head->it_->next()) heap.push(*head->it_);
\* head = heap.head(); and the test of the while
InnerBody ==
  /\ pc = "inner"
  /\ LET item   == storage[head]
         i      == SlotOf(item)
         top    == storage[elts[0]].it_
         popped == HeapPop(HeapState)
         r      == AdvancedReader(popped, head)
         more   == HasNext(data[r], cur[r])
         pos    == IF more THEN cur[r] + 1 ELSE cur[r]
         hp     == IF RePush(more)
                     THEN HeapPush(popped, r, ReaderKey(data[r], pos),
                                   ReaderVal(data[r], pos))
                     ELSE popped
         nhead  == HeapHead(hp)
     IN  /\ counts' = [counts EXCEPT ![i] = Recorded(item)]
         /\ countsFrom' = [countsFrom EXCEPT ![i] = item.key_]
         /\ pops' = pops + 1
         /\ cur' = [cur EXCEPT ![r] = pos]
         /\ pushLog' = IF RePush(more)
                         THEN Append(pushLog, PushRecord(r, top, more, pos,
                                                ReaderKey(data[r], pos)))
                         ELSE pushLog
         /\ storage' = hp.storage
         /\ elts' = hp.elts
         /\ h' = hp.h
         /\ head' = nhead
         /\ headReadEmpty' =
              (\/ headReadEmpty
               \/ ~IsNotEmpty(HeapState)
               \/ (TestReadsHeadKey(IsNotEmpty(hp)) /\ ~IsNotEmpty(hp)))
         /\ pc' = IF ContinueGroup(hp.storage[nhead].key_, key, IsNotEmpty(hp))
                    THEN "inner" ELSE "record"
  /\ UNCHANGED <<exitCode, dieMsg, buildOrder, data, primeI, key,
                 coverage_count, mer_hash, groups>>
  /\ UNCHANGED mainVars
  /\ UNCHANGED emitVars

\* ------------------------------------------------------ the histogram
\* coverage_count is the sequence of the nodes of the outer map in iteration
\* order; each node holds its key c0 and the nodes of its inner map, each
\* with its key c1 and the tally occ.
Link(seq, node) ==
  IF buildOrder = "front" THEN <<node>> \o seq ELSE Append(seq, node)

HasOuter(cov, a) == \E x \in 1 .. Len(cov) : cov[x].c0 = a
OuterPos(cov, a) == CHOOSE x \in 1 .. Len(cov) : cov[x].c0 = a
HasInner(inner, b) == \E y \in 1 .. Len(inner) : inner[y].c1 = b
InnerPos(inner, b) == CHOOSE y \in 1 .. Len(inner) : inner[y].c1 = b

\* mutant: the cell is assigned 1 instead of being incremented
Bump_set(occ) == 1

\* the tally a cell gets from ++ on its present value
Bump(occ) == occ + 1

\* coverage_count[a][b]++ : operator[] creates absent cells with value 0
CovIncr(cov, a, b) ==
  IF HasOuter(cov, a)
    THEN LET x     == OuterPos(cov, a)
             inner == cov[x].inner
         IN  IF HasInner(inner, b)
               THEN LET y == InnerPos(inner, b)
                    IN  [cov EXCEPT ![x].inner[y].occ = Bump(inner[y].occ)]
               ELSE [cov EXCEPT ![x].inner =
                                  Link(inner, [c1 |-> b, occ |-> Bump(0)])]
    ELSE Link(cov, [c0 |-> a, inner |-> <<[c1 |-> b, occ |-> Bump(0)]>>])

\* the value of the cell (a, b); 0 if the cell does not exist
Cell(cov, a, b) ==
  IF HasOuter(cov, a) /\ HasInner(cov[OuterPos(cov, a)].inner, b)
    THEN LET inner == cov[OuterPos(cov, a)].inner
         IN  inner[InnerPos(inner, b)].occ
    ELSE 0

\* the keys handed to the persistence sink by one finished group
Forwarded(k, c) == << <<k, c[0]>> >>

\* coverage_count[counts[0]][counts[1]]++; mer_hash_.add(key, counts[0])
Record ==
  /\ pc = "record"
  /\ coverage_count' = CovIncr(coverage_count, counts[0], counts[1])
  /\ mer_hash' = mer_hash \o Forwarded(key, counts)
  /\ groups' = Append(groups, [key |-> key, counts |-> counts,
                               from |-> countsFrom])
  /\ pc' = "outer"
  /\ UNCHANGED <<exitCode, dieMsg, buildOrder, data, cur, primeI, storage,
                 elts, h, head, key, counts, countsFrom, pushLog, pops,
                 headReadEmpty>>
  /\ UNCHANGED mainVars
  /\ UNCHANGED emitVars

\* ------------------------------------------------------------- emission
\* outfile_.open(outfile): the result is not tested; the destination may or
\* may not be creatable
\* what a destination that exists already may hold before the run
PriorContents == { <<>>, << <<7, 7, 7>> >> }

\* mutant: the destination is opened for appending
Truncate_append(prior) == prior

\* std::ofstream::open with the default mode discards the old content
Truncate(prior) == <<>>

OpenTable ==
  /\ pc = "open"
  /\ \E ok \in BOOLEAN, prior \in PriorContents :
       /\ tableOpen' = ok
       /\ table' = IF ok THEN Truncate(prior) ELSE table
  /\ wi' = 1
  /\ wj' = 1
  /\ pc' = "write"
  /\ UNCHANGED <<exitCode, dieMsg, buildOrder, dumped>>
  /\ UNCHANGED mainVars
  /\ UNCHANGED mergeVars

\* outfile_ << x.first << "\t" << y.first << "\t" << y.second << std::endl
\* writes nothing on a stream that is not open
WriteTo(t, open, row) == IF open THEN Append(t, row) ELSE t

\* one turn of the inner range-for loop of the emission
WriteRow ==
  /\ pc = "write"
  /\ wi <= Len(coverage_count)
  /\ LET x == coverage_count[wi]
         y == x.inner[wj]
     IN  /\ table' = WriteTo(table, tableOpen, <<x.c0, y.c1, y.occ>>)
         /\ IF wj < Len(x.inner)
              THEN wj' = wj + 1 /\ wi' = wi
              ELSE wj' = 1 /\ wi' = wi + 1
  /\ UNCHANGED <<pc, exitCode, dieMsg, buildOrder, tableOpen, dumped>>
  /\ UNCHANGED mainVars
  /\ UNCHANGED mergeVars

\* whether main calls dumper->dump(mer_hash.ary())
DoDump(flag) == flag

\* return from output_counts; if (saveMers) dumper->dump(...); return 0
Finish ==
  /\ pc = "write"
  /\ wi > Len(coverage_count)
  /\ dumped' = DoDump(saveMers)
  /\ exitCode' = 0
  /\ pc' = "done"
  /\ UNCHANGED <<dieMsg, buildOrder, tableOpen, table, wi, wj>>
  /\ UNCHANGED mainVars
  /\ UNCHANGED mergeVars

Next ==
  \/ GetOpt
  \/ CheckArgs
  \/ ReadHeaders
  \/ Setup
  \/ Dispatch
  \/ Prime
  \/ Peek
  \/ OuterHead
  \/ InnerBody
  \/ Record
  \/ OpenTable
  \/ WriteRow
  \/ Finish

Spec == Init /\ [][Next]_vars

\* the program is a single thread that runs until it returns or dies: a step
\* that can be taken is taken
FairSpec == Spec /\ WF_vars(Next)

\* ================================================================ claims
KeysOf(s) == { s[j].key : j \in 1 .. Len(s) }
UnionKeys == UNION { KeysOf(data[i]) : i \in FileIds }
HasKey(s, k) == k \in KeysOf(s)
\* the count a stream stores for a key, 0 if the stream lacks the key
CountIn(s, k) ==
  IF HasKey(s, k) THEN s[CHOOSE j \in 1 .. Len(s) : s[j].key = k].val ELSE 0

GroupKeys == [g \in 1 .. Len(groups) |-> groups[g].key]
MergeEnded == pc \in {"open", "write", "done"}
AtLoopHead == pc \in {"outer", "open", "write", "done"}

RECURSIVE SumOcc(_)
SumOcc(inner) ==
  IF inner = <<>> THEN 0 ELSE Head(inner).occ + SumOcc(Tail(inner))
RECURSIVE CovSum(_)
CovSum(cov) ==
  IF cov = <<>> THEN 0 ELSE SumOcc(Head(cov).inner) + CovSum(Tail(cov))

\* the cells of the histogram as (count0, count1, occurrences) triples
CellSetOf(cov) ==
  UNION { { <<cov[x].c0, cov[x].inner[y].c1, cov[x].inner[y].occ>> :
              y \in 1 .. Len(cov[x].inner) } : x \in 1 .. Len(cov) }

\* C1: the keys of the groups the merge loop produces are strictly
\* increasing (no key twice), every one is a key of some stream, and when the
\* merge has ended they are exactly the union of the keys of both streams.
Thm_C1 ==
  /\ \A a, b \in 1 .. Len(groups) : a < b => GroupKeys[a] < GroupKeys[b]
  /\ { GroupKeys[g] : g \in 1 .. Len(groups) } \subseteq UnionKeys
  /\ MergeEnded => { GroupKeys[g] : g \in 1 .. Len(groups) } = UnionKeys

\* a finished merge of two overlapping, different streams with three groups
Wit_C1 ==
  /\ pc = "done"
  /\ Len(groups) >= 3
  /\ KeysOf(data[0]) \cap KeysOf(data[1]) # {}
  /\ KeysOf(data[0]) # KeysOf(data[1])

\* C2: every key of a stream is in exactly one count vector, whose slot i
\* is the count stream i stores for the key, or 0 if stream i lacks the key.
Thm_C2 ==
  /\ \A g \in 1 .. Len(groups) : \A i \in FileIds :
       groups[g].counts[i] = CountIn(data[i], groups[g].key)
  /\ MergeEnded =>
       \A k \in UnionKeys :
         Cardinality({ g \in 1 .. Len(groups) : groups[g].key = k }) = 1

\* a finished merge with a key only stream 0 has, after a group with
\* another vector, and a key both streams have
Wit_C2 ==
  /\ pc = "done"
  /\ \E g \in 2 .. Len(groups) :
       /\ ~HasKey(data[1], groups[g].key)
       /\ groups[g].counts[0] > 0
       /\ groups[g].counts[1] = 0
       /\ groups[g - 1].counts[1] > 0
  /\ \E g \in 1 .. Len(groups) :
       groups[g].counts[0] > 0 /\ groups[g].counts[1] > 0

\* C3: at the head of the merge loop the cells of coverage_count sum to the
\* number of groups emitted so far, after the merge to the number of
\* distinct keys of both streams, and no step lowers a cell.
Thm_C3 ==
  /\ [](AtLoopHead => CovSum(coverage_count) = Len(groups))
  /\ [](MergeEnded => CovSum(coverage_count) = Cardinality(UnionKeys))
  /\ [][\A c \in CellSetOf(coverage_count) :
          Cell(coverage_count', c[1], c[2]) >= c[3]]_vars

\* a finished merge of two non-empty streams where two keys fell into one cell
Wit_C3 ==
  /\ pc = "done"
  /\ \E c \in CellSetOf(coverage_count) : c[3] >= 2
  /\ \A i \in FileIds : data[i] # <<>>

\* C4: streams A = [(AAA,3),(AAG,5)] and B = [(AAA,3),(AAG,2),(AAT,1)] give
\* the groups AAA->(3,3), AAG->(5,2), AAT->(0,1) in that order and the
\* histogram cells (0,1)->1, (3,3)->1, (5,2)->1 and no others.
IsScenario == data[0] = ScenarioA /\ data[1] = ScenarioB
Thm_C4 ==
  (IsScenario /\ MergeEnded) =>
     /\ [g \in 1 .. Len(groups) |-> <<groups[g].key, groups[g].counts[0],
                                      groups[g].counts[1]>>]
          = << <<1, 3, 3>>, <<3, 5, 2>>, <<4, 0, 1>> >>
     /\ CellSetOf(coverage_count) = { <<0, 1, 1>>, <<3, 3, 1>>, <<5, 2, 1>> }

Wit_C4 == IsScenario /\ pc = "done" /\ Len(groups) = 3

\* C5: the rows of the table are in ascending order of count0 and, for equal
\* count0, of count1.
RowLess(a, b) == a[1] < b[1] \/ (a[1] = b[1] /\ a[2] < b[2])
CE_C5 ==
  \A i, j \in 1 .. Len(table) : i < j => RowLess(table[i], table[j])

\* C6: keys are handed to the persistence sink only in runs whose command
\* line carries the persistence flag.
FlagGiven == \E i \in 1 .. Len(argv) : argv[i] \in {"-m", "--savemers"}
CE_C6 == mer_hash # <<>> => FlagGiven

\* C7: a run whose table destination could not be opened does not complete
\* with exit status zero.
CE_C7 == (pc = "done" /\ ~tableOpen) => exitCode # 0

\* the number of positional arguments of the command line
PosCount == Cardinality({ i \in 2 .. Len(argv) : ~IsOption(argv[i]) })
ArgsChecked == pc \notin {"getopt", "check_args"}
UsageDeath == pc = "died" /\ dieMsg = "usage" /\ exitCode = 1

\* C8 as stated: two and three positional arguments pass the argument count
\* check, any other number is fatal.
CE_C8 ==
  ArgsChecked =>
    /\ PosCount \in {2, 3} => dieMsg # "usage"
    /\ PosCount \notin {2, 3} => UsageDeath

\* C8, amended: exactly three positional arguments pass the argument count
\* check; any other number, two included, is fatal.
Thm_C8 ==
  ArgsChecked =>
    /\ PosCount = 3 => dieMsg # "usage"
    /\ PosCount # 3 => UsageDeath

\* an invocation with the flag and three positional arguments was accepted
Wit_C8 == pc = "read_headers" /\ PosCount = 3 /\ saveMers

HeaderFields == {"format", "key_len", "max_reprobe_offset", "size", "matrix"}
HeadersDiffer ==
  \E f \in HeaderFields : files[0].header[f] # files[1].header[f]
HeadersRead == ArgsChecked /\ pc # "read_headers" /\ dieMsg # "usage"
BothMatch == files[0].good /\ files[1].good /\ ~HeadersDiffer
\* no stream was advanced, the heap was not primed, no table was written
NothingStarted ==
  /\ \A i \in FileIds : cur[i] = 0 /\ data[i] = <<>>
  /\ h = 0 /\ primeI = 0 /\ head = -1
  /\ coverage_count = <<>> /\ mer_hash = <<>>
  /\ ~tableOpen /\ table = <<>>
FatalBeforeMerge == pc = "died" /\ exitCode = 1 /\ NothingStarted

\* C9 as stated: a second input that does not open or whose header differs
\* in one of the five fields is fatal before any merge work; if both inputs
\* open and the five fields match, the run is not ended by a fatal error.
CE_C9 ==
  HeadersRead =>
    /\ (~files[1].good \/ HeadersDiffer) => FatalBeforeMerge
    /\ BothMatch => pc # "died"

\* C9, amended: a second input that does not open or whose header differs in
\* one of the five fields is fatal before any merge work; if both inputs
\* open, the five fields match and the common format is the binary or the
\* text format, the run goes on to the merge; with any other common format
\* it ends fatally before any merge work.
Thm_C9 ==
  HeadersRead =>
    /\ (~files[1].good \/ HeadersDiffer) => FatalBeforeMerge
    /\ (BothMatch /\ SupportedFormat(files[0].header.format)) => pc # "died"
    /\ (BothMatch /\ ~SupportedFormat(files[0].header.format)) =>
         /\ NothingStarted
         /\ pc \in {"setup", "dispatch"} \/ (pc = "died" /\ dieMsg = "unsupported")

\* both inputs opened, only the hash matrix differs, and the run has died
Wit_C9 ==
  /\ pc = "died" /\ dieMsg = "matrix"
  /\ files[0].good /\ files[1].good
  /\ files[0].header.matrix # files[1].header.matrix

\* C10: a count vector holds only counts of entries of its own key, it holds
\* the entry of every stream that has the key, and when the group is emitted
\* no entry of that key is still in the heap.
Thm_C10 ==
  /\ \A g \in 1 .. Len(groups) : \A i \in FileIds :
       groups[g].from[i] =
         (IF HasKey(data[i], groups[g].key) THEN groups[g].key ELSE 0)
  /\ pc = "record" =>
       /\ \A i \in FileIds : countsFrom[i] \in {0, key}
       /\ \A q \in 0 .. (h - 1) : storage[elts[q]].key_ # key

\* a group made of the entries of both streams is about to be emitted while
\* the heap still holds later entries
Wit_C10 ==
  /\ pc = "record"
  /\ \A i \in FileIds : countsFrom[i] = key
  /\ h > 0

Primed == primeI = NumFiles
\* the number of entries of a stream that store the count v
EntriesWith(s, v) == Cardinality({ n \in 1 .. Len(s) : s[n].val = v })

\* C11: if exactly one stream is empty it is never pushed, every key of the
\* other stream gets a vector with 0 in the empty stream's slot, and each
\* cell counts the keys of the other stream that store its count; if both
\* are empty the loop body never runs and the histogram stays empty.
Thm_C11 ==
  /\ \A i, j \in FileIds :
       (Primed /\ i # j /\ data[i] = <<>> /\ data[j] # <<>>) =>
         /\ \A p \in 1 .. Len(pushLog) : pushLog[p].it # i
         /\ \A g \in 1 .. Len(groups) :
              /\ groups[g].counts[i] = 0
              /\ groups[g].key \in KeysOf(data[j])
         /\ MergeEnded =>
              /\ { groups[g].key : g \in 1 .. Len(groups) } = KeysOf(data[j])
              /\ \A c \in CellSetOf(coverage_count) :
                   c[i + 1] = 0 /\ c[3] = EntriesWith(data[j], c[j + 1])
              /\ \A n \in 1 .. Len(data[j]) :
                   \E c \in CellSetOf(coverage_count) :
                     c[j + 1] = data[j][n].val
  /\ (Primed /\ \A i \in FileIds : data[i] = <<>>) =>
       /\ pc \notin {"inner", "record"}
       /\ coverage_count = <<>> /\ groups = <<>>
       /\ pushLog = <<>> /\ pops = 0 /\ key = 0

\* a finished merge of an empty first stream with a second stream two keys
\* of which store the same count
Wit_C11 ==
  /\ pc = "done"
  /\ data[0] = <<>>
  /\ Len(data[1]) >= 2
  /\ \E c \in CellSetOf(coverage_count) : c[3] >= 2

\* the elements of a finite set of numbers in ascending order
RECURSIVE SortedSeq(_)
SortedSeq(S) ==
  IF S = {} THEN <<>>
  ELSE LET lo == CHOOSE x \in S : \A y \in S : x <= y
       IN  <<lo>> \o SortedSeq(S \ {lo})

\* the histogram of two streams, from their contents alone: one increment
\* per key of the union, in ascending key order
RECURSIVE RefCov(_, _, _, _)
RefCov(keys, d0, d1, cov) ==
  IF keys = <<>> THEN cov
  ELSE RefCov(Tail(keys), d0, d1,
              CovIncr(cov, CountIn(d0, Head(keys)), CountIn(d1, Head(keys))))

RECURSIVE RowsOfInner(_, _)
RowsOfInner(c0, inner) ==
  IF inner = <<>> THEN <<>>
  ELSE << <<c0, Head(inner).c1, Head(inner).occ>> >>
         \o RowsOfInner(c0, Tail(inner))
RECURSIVE RowsOf(_)
RowsOf(cov) ==
  IF cov = <<>> THEN <<>>
  ELSE RowsOfInner(Head(cov).c0, Head(cov).inner) \o RowsOf(Tail(cov))

\* the table two given streams produce with the build at hand
RefTable(d0, d1) == RowsOf(RefCov(SortedSeq(KeysOf(d0) \cup KeysOf(d1)),
                                  d0, d1, <<>>))

\* C12: the table a run leaves is determined by the two input streams: it
\* is the same sequence of rows in every run of the program on these
\* streams, whatever the destination held before and whatever the options.
Thm_C12 ==
  (pc = "done" /\ tableOpen) => table = RefTable(data[0], data[1])

\* a finished run that wrote a table of three rows over overlapping streams
Wit_C12 ==
  /\ pc = "done" /\ tableOpen
  /\ Len(table) >= 3
  /\ KeysOf(data[0]) \cap KeysOf(data[1]) # {}

\* C13 as stated: slot i of an emitted vector is 0 if and only if stream i
\* has no entry for the key, stored counts of 0 included.
CE_C13 ==
  \A g \in 1 .. Len(groups) : \A i \in FileIds :
    groups[g].counts[i] = 0 <=> ~HasKey(data[i], groups[g].key)

\* C13, amended: slot i of an emitted vector is 0 if and only if stream i
\* has no entry for the key or its entry stores the count 0.
Thm_C13 ==
  \A g \in 1 .. Len(groups) : \A i \in FileIds :
    groups[g].counts[i] = 0 <=>
      (\/ ~HasKey(data[i], groups[g].key)
       \/ \E n \in 1 .. Len(data[i]) :
            data[i][n].key = groups[g].key /\ data[i][n].val = 0)

\* a vector was emitted for a key that stream 0 stores with the count 0 and
\* stream 1 with a positive count
Wit_C13 ==
  \E g \in 1 .. Len(groups) :
    /\ HasKey(data[0], groups[g].key)
    /\ CountIn(data[0], groups[g].key) = 0
    /\ groups[g].counts[0] = 0
    /\ groups[g].counts[1] > 0

\* C14: the merge loop never reads the key or the count of the head entry
\* of a heap that holds no entries.
CE_C14 == ~headReadEmpty

\* C15: every heap.push pushes a reader whose preceding next() returned
\* true and which stands on an entry of its file not pushed before; after a
\* pop the reader advanced and pushed is the reader of the item popped.
Thm_C15 ==
  /\ \A p \in 1 .. Len(pushLog) :
       LET e == pushLog[p]
       IN  /\ e.ok
           /\ e.pos \in 1 .. Len(data[e.it])
           /\ e.key = data[e.it][e.pos].key
           /\ e.popped # -1 => e.it = e.popped
  /\ \A p, q \in 1 .. Len(pushLog) :
       (p < q /\ pushLog[p].it = pushLog[q].it)
          => pushLog[p].pos < pushLog[q].pos
  /\ Cardinality({ p \in 1 .. Len(pushLog) : pushLog[p].popped = -1 })
       <= NumFiles

\* a finished merge in which each of the two readers was pushed again after
\* an item of its own was popped
Wit_C15 ==
  /\ pc = "done"
  /\ \A i \in FileIds :
       \E p \in 1 .. Len(pushLog) :
         pushLog[p].popped = i /\ pushLog[p].it = i

\* the number of entries of both files
TotalEntries == Len(data[0]) + Len(data[1])

InMerge == pc \in {"outer", "inner", "record"}
\* the entries not yet popped: those not yet read and those in the heap
Remaining ==
  (Len(data[0]) - cur[0]) + (Len(data[1]) - cur[1]) + h
\* a measure of the work the merge loop has left at each of its positions
Variant ==
  3 * Remaining + (CASE pc = "record" -> 2 [] pc = "outer" -> 1 [] OTHER -> 0)

\* C16: the merge loop terminates: each of its steps lowers a measure that
\* is never negative, a step is always possible inside it, and it is left
\* only by falling out of the outer loop; when it has ended the heap is
\* empty, both readers are exhausted and heap.pop was called once per entry
\* of the two streams.
Thm_C16 ==
  /\ [](InMerge => (Variant >= 0 /\ ENABLED Next))
  /\ [][InMerge => (IF InMerge' THEN Variant' < Variant ELSE pc' = "open")]_vars
  /\ [](MergeEnded =>
          /\ h = 0
          /\ \A i \in FileIds : cur[i] = Len(data[i])
          /\ pops = TotalEntries)

\* C16 as a liveness property, for FairSpec: a merge that has started ends.
Live_C16 == (pc = "prime") ~> MergeEnded

\* a merge of two non-empty streams with a common key has ended
Wit_C16 ==
  /\ pc = "open"
  /\ \A i \in FileIds : Len(data[i]) >= 2
  /\ KeysOf(data[0]) \cap KeysOf(data[1]) # {}

\* C17: the table file is named by the output prefix, the third positional
\* argument, followed by ".tsv", and carries the same prefix as the
\* "_mers.jf" file.
CE_C17 ==
  tablefile # <<>> =>
    /\ tablefile = <<Argv(optind + 2), ".tsv">>
    /\ tablefile[1] = outfile[1]

\* C18: the key set is dumped at the end of a run if and only if -m or
\* --savemers was given.
CE_C18 == pc = "done" => (dumped <=> FlagGiven)

\* the items in the heap, in heap order
HeapItems == [q \in 0 .. (h - 1) |-> storage[elts[q]]]

\* C19: the heap never holds more items than there are input streams nor two
\* items of one stream, each item is the entry its reader stands on, and
\* every entry read so far is either in the heap or was popped.
Thm_C19 ==
  /\ h \in 0 .. NumFiles
  /\ \A q, r \in 0 .. (h - 1) : q # r => HeapItems[q].it_ # HeapItems[r].it_
  /\ \A q \in 0 .. (h - 1) :
       LET item == HeapItems[q]
       IN  /\ item.it_ \in FileIds
           /\ cur[item.it_] \in 1 .. Len(data[item.it_])
           /\ item.key_ = data[item.it_][cur[item.it_]].key
           /\ item.val_ = data[item.it_][cur[item.it_]].val
  /\ cur[0] + cur[1] = pops + h
  /\ { elts[q] : q \in FileIds } = FileIds

\* the heap holds the heads of both streams, each reader standing on its
\* second entry
Wit_C19 ==
  /\ h = NumFiles
  /\ \A i \in FileIds : cur[i] = 2
  /\ pc = "inner"

====
